---- MODULE Spec2Model ----
(***************************************************************************)
(* Node lease arbitration of the node-healthcheck operator                 *)
(* (controllers/resources/lease.go): ObtainNodeLease and ManageLease over  *)
(* the lease record of one node, called by several controller instances    *)
(* while the clock advances.                                               *)
(*                                                                         *)
(* Times are seconds on the wall clock, durations are seconds.  A Go nil   *)
(* pointer (AcquireTime, RenewTime, LeaseDurationSeconds, a nil            *)
(* *time.Duration) is NilTime; a nil HolderIdentity is NilHolder.          *)
(***************************************************************************)
EXTENDS Integers, Sequences, FiniteSets, TLC

(* ------------------------------------------------------------------------ *)
(* Units and package-level tunables, lease.go:22-32                         *)
(* ------------------------------------------------------------------------ *)
Second == 1
Minute == 60
templateSuffix == "Template"
holderIdentity == "Node-Healthcheck"
otherIdentity == "Other-Operator"
LeaseBuffer == Minute
RequeueIfLeaseTaken == Minute
DefaultLeaseDuration == 10 * Minute
maxTimesToExtendLease == 2

NilTime == -1
NilHolder == "<nil>"

(* ------------------------------------------------------------------------ *)
(* Bounds of the model                                                      *)
(* ------------------------------------------------------------------------ *)
\* the clock starts here, so that a lease found at start-up can have an age
StartTime == 1800
\* number of one-minute clock steps explored
MaxTicks == 4

MaxTime == StartTime + MaxTicks * Minute
\* minutes a ManageLease call takes at most, from GetLease to its write
MaxCallTicks == 1

(* ------------------------------------------------------------------------ *)
(* Inputs                                                                   *)
(* ------------------------------------------------------------------------ *)
\* A kind is a string, kept as its sequence of words so that the suffix
\* "Template" can be cut off: "SelfNodeRemediationTemplate" is <<"SNR","Template">>.
KindSNR == <<"SNR">>
KindFAR == <<"FAR">>
Kinds == {KindSNR, KindFAR}

EscalatingRemediation(kind, timeout) == [kind |-> kind, timeout |-> timeout]

\* nhc.Spec.EscalatingRemediations: the ordered escalation policy
NoEscalation == << >>
\* SNR times out after a minute; FAR has no step and gets the default
Escalation == << EscalatingRemediation(KindSNR \o <<templateSuffix>>, Minute) >>
Policies == {NoEscalation, Escalation}

\* remediationCrs: the remediation CRs found for the node
RemediationLists == { << >>, <<KindSNR>>, <<KindFAR>>, <<KindSNR, KindFAR>> }

\* the replicas of this controller, each of which makes one call at a time for
\* the node; "other" is an operator that uses the lease store under another
\* holder identity
Instances == {"nhc-1", "nhc-2"}
Identity(i) == IF i = "other" THEN otherIdentity ELSE holderIdentity
Identities == {holderIdentity, otherIdentity}

\* which API call of the invocation fails
ObtainFaults == {"none", "nodeNotFound", "nodeErr", "writeErr"}
\* faults of the reads ManageLease starts with, and of the write it may end with
FetchFaults == {"none", "nodeNotFound", "nodeErr", "getErr"}
WriteFaults == {"none", "writeErr"}

\* the calls made: every remediation and policy when the node and the store
\* answer, and each fault with one of them
ObtainCalls ==
    {[kind |-> kind, nhc |-> nhc, fault |-> "none"] :
        kind \in Kinds, nhc \in Policies}
    \cup {[kind |-> KindSNR, nhc |-> NoEscalation, fault |-> fault] :
            fault \in ObtainFaults \ {"none"}}
FetchCalls ==
    {[nhc |-> nhc, remediationCrs |-> crs, fault |-> "none"] :
        nhc \in Policies, crs \in RemediationLists}
    \cup {[nhc |-> NoEscalation, remediationCrs |-> <<KindSNR>>, fault |-> fault] :
            fault \in FetchFaults \ {"none"}}
WriteCalls ==
    {[nhc |-> nhc, remediationCrs |-> crs, fault |-> "none"] :
        nhc \in Policies, crs \in RemediationLists}
    \cup {[nhc |-> nhc, remediationCrs |-> crs, fault |-> fault] :
            nhc \in Policies, crs \in {<< >>, <<KindSNR>>},
            fault \in WriteFaults \ {"none"}}

(* ------------------------------------------------------------------------ *)
(* The lease record (coordv1.Lease.Spec)                                    *)
(* ------------------------------------------------------------------------ *)
Lease(h, a, r, d) ==
    [exists |-> TRUE, holder |-> h, acquireTime |-> a, renewTime |-> r,
     durationSeconds |-> d]

NoLease ==
    [exists |-> FALSE, holder |-> NilHolder, acquireTime |-> NilTime,
     renewTime |-> NilTime, durationSeconds |-> NilTime]

(* ------------------------------------------------------------------------ *)
(* DurationPolicy, lease.go:128-158                                         *)
(* ------------------------------------------------------------------------ *)
\* strings.TrimSuffix(s, "Template")
TrimSuffix(s, suffix) ==
    IF Len(s) >= 1 /\ s[Len(s)] = suffix THEN SubSeq(s, 1, Len(s) - 1) ELSE s

RECURSIVE TimeoutFrom(_, _, _)
\* the loop of getTimeoutForRemediation from step i on: first match, then break
TimeoutFrom(steps, i, remediationKind) ==
    IF i > Len(steps) THEN 0
    ELSE IF TrimSuffix(steps[i].kind, templateSuffix) = remediationKind
         THEN steps[i].timeout
         ELSE TimeoutFrom(steps, i + 1, remediationKind)

RECURSIVE TimeoutFrom_NoBreak(_, _, _, _)
\* variant of the loop without the break: the last matching step wins
TimeoutFrom_NoBreak(steps, i, remediationKind, leaseDuration) ==
    IF i > Len(steps) THEN leaseDuration
    ELSE TimeoutFrom_NoBreak(steps, i + 1, remediationKind,
             IF TrimSuffix(steps[i].kind, templateSuffix) = remediationKind
             THEN steps[i].timeout ELSE leaseDuration)

getTimeoutForRemediation_NoBreak(remediationKind, nhc) ==
    TimeoutFrom_NoBreak(nhc, 1, remediationKind, 0)

getTimeoutForRemediation(remediationKind, nhc) == TimeoutFrom(nhc, 1, remediationKind)

getLeaseDurationForRemediation(remediationKind, nhc) ==
    LET timeout == getTimeoutForRemediation(remediationKind, nhc)
    IN  IF timeout # 0 THEN timeout ELSE DefaultLeaseDuration

RECURSIVE HighestFrom(_, _, _, _)
\* the loop of getLeaseDurationForRemediations from remediation i on
HighestFrom(nhc, remediationCrs, i, highest) ==
    IF i > Len(remediationCrs) THEN highest
    ELSE LET current == getLeaseDurationForRemediation(remediationCrs[i], nhc)
         IN  HighestFrom(nhc, remediationCrs, i + 1,
                         IF current > highest THEN current ELSE highest)

\* variant: the highest duration is not reset to 0 before the loop
getLeaseDurationForRemediations_NoReset(nhc, remediationCrs) ==
    IF Len(nhc) > 0 THEN HighestFrom(nhc, remediationCrs, 1, DefaultLeaseDuration)
    ELSE DefaultLeaseDuration

getLeaseDurationForRemediations(nhc, remediationCrs) ==
    IF Len(nhc) > 0 THEN HighestFrom(nhc, remediationCrs, 1, 0)
    ELSE DefaultLeaseDuration

(* ------------------------------------------------------------------------ *)
(* OverdueDetector, lease.go:160-202                                        *)
(* ------------------------------------------------------------------------ *)
\* variant: the acquisition itself is not counted as a period
calcLeaseExpiration_NoOffset(l, leaseDuration) ==
    l.acquireTime + maxTimesToExtendLease * leaseDuration

\* variant: the periods are counted from the last renewal
calcLeaseExpiration_FromRenewTime(l, leaseDuration) ==
    l.renewTime + (maxTimesToExtendLease + 1) * leaseDuration

calcLeaseExpiration(l, leaseDuration) ==
    l.acquireTime + (maxTimesToExtendLease + 1) * leaseDuration

\* variant: a lease without acquire time counts as not overdue, without error
isLeaseOverdue_NilNotOverdue(l, nhc, remediationCrs, now) ==
    IF l.acquireTime = NilTime
    THEN [ok |-> FALSE, err |-> "nil"]
    ELSE [ok  |-> now > calcLeaseExpiration(l, getLeaseDurationForRemediations(nhc, remediationCrs)),
          err |-> "nil"]

isLeaseOverdue(l, nhc, remediationCrs, now) ==
    IF l.acquireTime = NilTime
    THEN [ok |-> FALSE, err |-> "Malformed"]
    ELSE [ok  |-> now > calcLeaseExpiration(l, getLeaseDurationForRemediations(nhc, remediationCrs)),
          err |-> "nil"]

\* variant: len(remediationCrs) >= 0
isRemediationsExist_GreaterEqual(remediationCrs) == Len(remediationCrs) >= 0

isRemediationsExist(remediationCrs) == Len(remediationCrs) > 0

isLeaseOwner(l, id) ==
    IF l.holder = NilHolder THEN FALSE ELSE l.holder = id

(* ------------------------------------------------------------------------ *)
(* LeaseStore: the lease manager of medik8s/common                          *)
(* ------------------------------------------------------------------------ *)
\* a lease has TTL remaining
isValidLease(l, now) ==
    /\ l.exists
    /\ l.renewTime # NilTime
    /\ l.durationSeconds # NilTime
    /\ now < l.renewTime + l.durationSeconds * Second

\* create-or-renew for holder id; AlreadyHeld when another holder's lease is valid
RequestLease(l, id, ttl, now, fault) ==
    IF fault = "writeErr" THEN [err |-> "StoreErr", lease |-> l]
    ELSE IF ~l.exists
         THEN [err |-> "nil", lease |-> Lease(id, now, now, ttl \div Second)]
    ELSE IF l.holder = id
         THEN [err |-> "nil",
               lease |-> [l EXCEPT !.renewTime = now, !.durationSeconds = ttl \div Second]]
    ELSE IF isValidLease(l, now)
         THEN [err |-> "AlreadyHeld", lease |-> l]
    ELSE [err |-> "nil", lease |-> Lease(id, now, now, ttl \div Second)]

InvalidateLease(l, fault) ==
    IF fault = "writeErr" THEN [err |-> "StoreErr", lease |-> l]
    ELSE [err |-> "nil", lease |-> NoLease]

(* ------------------------------------------------------------------------ *)
(* LeaseArbiter, lease.go:61-126                                            *)
(* ------------------------------------------------------------------------ *)
\* what one invocation returned and which store writes it issued
Outcome(obtained, recheck, err, l, requested, invalidated) ==
    [obtained |-> obtained, recheck |-> recheck, err |-> err, lease |-> l,
     requested |-> requested, invalidated |-> invalidated]

\* variant: AlreadyHeldError is returned like any other error, without the requeue hint
ObtainNodeLease_NoRequeueHint(id, remediationKind, nhc, l, now, fault) ==
    LET leaseDuration == getLeaseDurationForRemediation(remediationKind, nhc)
        leaseDurationWithBuffer == leaseDuration + LeaseBuffer
    IN  IF fault = "nodeNotFound"
        THEN Outcome(FALSE, NilTime, "NotFound", l, NilTime, FALSE)
        ELSE IF fault = "nodeErr"
        THEN Outcome(FALSE, NilTime, "NodeErr", l, NilTime, FALSE)
        ELSE LET r == RequestLease(l, id, leaseDurationWithBuffer, now, fault)
             IN  IF r.err # "nil"
                 THEN Outcome(FALSE, NilTime, r.err, r.lease,
                              leaseDurationWithBuffer, FALSE)
                 ELSE Outcome(TRUE, leaseDuration, "nil", r.lease,
                              leaseDurationWithBuffer, FALSE)

\* variant: the hint returned on success is the duration with the buffer
ObtainNodeLease_HintWithBuffer(id, remediationKind, nhc, l, now, fault) ==
    LET leaseDuration == getLeaseDurationForRemediation(remediationKind, nhc)
        leaseDurationWithBuffer == leaseDuration + LeaseBuffer
    IN  IF fault = "nodeNotFound"
        THEN Outcome(FALSE, NilTime, "NotFound", l, NilTime, FALSE)
        ELSE IF fault = "nodeErr"
        THEN Outcome(FALSE, NilTime, "NodeErr", l, NilTime, FALSE)
        ELSE LET r == RequestLease(l, id, leaseDurationWithBuffer, now, fault)
             IN  IF r.err = "AlreadyHeld"
                 THEN Outcome(FALSE, RequeueIfLeaseTaken, r.err, r.lease,
                              leaseDurationWithBuffer, FALSE)
                 ELSE IF r.err # "nil"
                 THEN Outcome(FALSE, NilTime, r.err, r.lease,
                              leaseDurationWithBuffer, FALSE)
                 ELSE Outcome(TRUE, leaseDurationWithBuffer, "nil", r.lease,
                              leaseDurationWithBuffer, FALSE)

\* variant: the lease is requested for the duration alone, without the buffer
ObtainNodeLease_TTLWithoutBuffer(id, remediationKind, nhc, l, now, fault) ==
    LET leaseDuration == getLeaseDurationForRemediation(remediationKind, nhc)
    IN  IF fault = "nodeNotFound"
        THEN Outcome(FALSE, NilTime, "NotFound", l, NilTime, FALSE)
        ELSE IF fault = "nodeErr"
        THEN Outcome(FALSE, NilTime, "NodeErr", l, NilTime, FALSE)
        ELSE LET r == RequestLease(l, id, leaseDuration, now, fault)
             IN  IF r.err = "AlreadyHeld"
                 THEN Outcome(FALSE, RequeueIfLeaseTaken, r.err, r.lease,
                              leaseDuration, FALSE)
                 ELSE IF r.err # "nil"
                 THEN Outcome(FALSE, NilTime, r.err, r.lease, leaseDuration, FALSE)
                 ELSE Outcome(TRUE, leaseDuration, "nil", r.lease,
                              leaseDuration, FALSE)

ObtainNodeLease(id, remediationKind, nhc, l, now, fault) ==
    LET leaseDuration == getLeaseDurationForRemediation(remediationKind, nhc)
        leaseDurationWithBuffer == leaseDuration + LeaseBuffer
    IN  IF fault = "nodeNotFound"
        THEN Outcome(FALSE, NilTime, "NotFound", l, NilTime, FALSE)
        ELSE IF fault = "nodeErr"
        THEN Outcome(FALSE, NilTime, "NodeErr", l, NilTime, FALSE)
        ELSE LET r == RequestLease(l, id, leaseDurationWithBuffer, now, fault)
             IN  IF r.err = "AlreadyHeld"
                 THEN Outcome(FALSE, RequeueIfLeaseTaken, r.err, r.lease,
                              leaseDurationWithBuffer, FALSE)
                 ELSE IF r.err # "nil"
                 THEN Outcome(FALSE, NilTime, r.err, r.lease,
                              leaseDurationWithBuffer, FALSE)
                 ELSE Outcome(TRUE, leaseDuration, "nil", r.lease,
                              leaseDurationWithBuffer, FALSE)

\* return 0, m.commonLeaseManager.InvalidateLease(ctx, node); stored is the lease
\* in the store when the call arrives there
ReleaseLease(stored, fault) ==
    LET r == InvalidateLease(stored, fault)
    IN  Outcome(FALSE, 0, r.err, r.lease, NilTime, TRUE)

\* variant: the lease is requested unless actualExpiry is after expectedExpiry
ExtendLease_NotAfter(id, nhc, remediationCrs, l, extendNow, stored, now, fault) ==
    LET leaseExpectedDuration == getLeaseDurationForRemediations(nhc, remediationCrs)
        expectedExpiry == extendNow + leaseExpectedDuration
    IN  IF l.renewTime = NilTime \/ l.durationSeconds = NilTime
        THEN Outcome(FALSE, NilTime, "Panic", stored, NilTime, FALSE)
        ELSE LET actualExpiry == l.renewTime + Second * l.durationSeconds
             IN  IF actualExpiry <= expectedExpiry
                 THEN LET r == RequestLease(stored, id,
                                            leaseExpectedDuration + LeaseBuffer,
                                            now, fault)
                      IN  IF r.err # "nil"
                          THEN Outcome(FALSE, 0, r.err, r.lease,
                                       leaseExpectedDuration + LeaseBuffer, FALSE)
                          ELSE Outcome(FALSE, leaseExpectedDuration, "nil", r.lease,
                                       leaseExpectedDuration + LeaseBuffer, FALSE)
                 ELSE Outcome(FALSE, leaseExpectedDuration, "nil", stored, NilTime, FALSE)

\* variant: the extension requests a fresh lease instead of renewing the one found
ExtendLease_Recreates(id, nhc, remediationCrs, l, extendNow, stored, now, fault) ==
    LET leaseExpectedDuration == getLeaseDurationForRemediations(nhc, remediationCrs)
        expectedExpiry == extendNow + leaseExpectedDuration
    IN  IF l.renewTime = NilTime \/ l.durationSeconds = NilTime
        THEN Outcome(FALSE, NilTime, "Panic", stored, NilTime, FALSE)
        ELSE LET actualExpiry == l.renewTime + Second * l.durationSeconds
             IN  IF actualExpiry < expectedExpiry
                 THEN LET r == RequestLease(NoLease, id,
                                            leaseExpectedDuration + LeaseBuffer,
                                            now, fault)
                      IN  IF r.err # "nil"
                          THEN Outcome(FALSE, 0, r.err, stored,
                                       leaseExpectedDuration + LeaseBuffer, FALSE)
                          ELSE Outcome(FALSE, leaseExpectedDuration, "nil", r.lease,
                                       leaseExpectedDuration + LeaseBuffer, FALSE)
                 ELSE Outcome(FALSE, leaseExpectedDuration, "nil", stored, NilTime, FALSE)

\* variant: the buffer is not counted in the expiry of the lease found
ExtendLease_IgnoresBuffer(id, nhc, remediationCrs, l, extendNow, stored, now, fault) ==
    LET leaseExpectedDuration == getLeaseDurationForRemediations(nhc, remediationCrs)
        expectedExpiry == extendNow + leaseExpectedDuration
    IN  IF l.renewTime = NilTime \/ l.durationSeconds = NilTime
        THEN Outcome(FALSE, NilTime, "Panic", stored, NilTime, FALSE)
        ELSE LET actualExpiry == l.renewTime + Second * l.durationSeconds - LeaseBuffer
             IN  IF actualExpiry < expectedExpiry
                 THEN LET r == RequestLease(stored, id,
                                            leaseExpectedDuration + LeaseBuffer,
                                            now, fault)
                      IN  IF r.err # "nil"
                          THEN Outcome(FALSE, 0, r.err, r.lease,
                                       leaseExpectedDuration + LeaseBuffer, FALSE)
                          ELSE Outcome(FALSE, leaseExpectedDuration, "nil", r.lease,
                                       leaseExpectedDuration + LeaseBuffer, FALSE)
                 ELSE Outcome(FALSE, leaseExpectedDuration, "nil", stored, NilTime, FALSE)

\* variant: the duration is returned without extending a lease that ends sooner
ExtendLease_NoRequest(id, nhc, remediationCrs, l, extendNow, stored, now, fault) ==
    LET leaseExpectedDuration == getLeaseDurationForRemediations(nhc, remediationCrs)
        expectedExpiry == extendNow + leaseExpectedDuration
    IN  IF l.renewTime = NilTime \/ l.durationSeconds = NilTime
        THEN Outcome(FALSE, NilTime, "Panic", stored, NilTime, FALSE)
        ELSE Outcome(FALSE, leaseExpectedDuration, "nil", stored, NilTime, FALSE)

\* the last branch of ManageLease, lease.go:111-125.  l is the lease GetLease
\* returned, extendNow the clock read at lease.go:114; RequestLease is a call
\* of its own to the store, which holds the lease stored at its time now
ExtendLease(id, nhc, remediationCrs, l, extendNow, stored, now, fault) ==
    LET leaseExpectedDuration == getLeaseDurationForRemediations(nhc, remediationCrs)
        expectedExpiry == extendNow + leaseExpectedDuration
    IN  IF l.renewTime = NilTime \/ l.durationSeconds = NilTime
        THEN Outcome(FALSE, NilTime, "Panic", stored, NilTime, FALSE)
        ELSE LET actualExpiry == l.renewTime + Second * l.durationSeconds
             IN  IF actualExpiry < expectedExpiry
                 THEN LET r == RequestLease(stored, id,
                                            leaseExpectedDuration + LeaseBuffer,
                                            now, fault)
                      IN  IF r.err # "nil"
                          THEN Outcome(FALSE, 0, r.err, r.lease,
                                       leaseExpectedDuration + LeaseBuffer, FALSE)
                          ELSE Outcome(FALSE, leaseExpectedDuration, "nil", r.lease,
                                       leaseExpectedDuration + LeaseBuffer, FALSE)
                 ELSE Outcome(FALSE, leaseExpectedDuration, "nil", stored, NilTime, FALSE)

\* variant: an overdue lease is released by its owner only
ManageLease_OverdueOwnerOnly(id, nhc, remediationCrs, l, overdueNow, extendNow, stored, now, fault) ==
    IF fault = "nodeNotFound" THEN Outcome(FALSE, 0, "NotFound", stored, NilTime, FALSE)
    ELSE IF fault = "nodeErr" THEN Outcome(FALSE, 0, "NodeErr", stored, NilTime, FALSE)
    ELSE IF fault = "getErr" THEN Outcome(FALSE, 0, "GetErr", stored, NilTime, FALSE)
    ELSE IF ~l.exists THEN Outcome(FALSE, 0, "nil", stored, NilTime, FALSE)
    ELSE IF ~isRemediationsExist(remediationCrs) /\ isLeaseOwner(l, id)
         THEN ReleaseLease(stored, fault)
    ELSE LET overdue == isLeaseOverdue(l, nhc, remediationCrs, overdueNow)
         IN  IF overdue.err # "nil"
             THEN Outcome(FALSE, 0, overdue.err, stored, NilTime, FALSE)
             ELSE IF overdue.ok /\ isLeaseOwner(l, id)
             THEN ReleaseLease(stored, fault)
             ELSE ExtendLease(id, nhc, remediationCrs, l, extendNow, stored, now, fault)

\* variant: a lease that is not found is not told apart from one that is
ManageLease_NoNotFoundCheck(id, nhc, remediationCrs, l, overdueNow, extendNow, stored, now, fault) ==
    IF fault = "nodeNotFound" THEN Outcome(FALSE, 0, "NotFound", stored, NilTime, FALSE)
    ELSE IF fault = "nodeErr" THEN Outcome(FALSE, 0, "NodeErr", stored, NilTime, FALSE)
    ELSE IF fault = "getErr" THEN Outcome(FALSE, 0, "GetErr", stored, NilTime, FALSE)
    ELSE IF ~isRemediationsExist(remediationCrs) /\ isLeaseOwner(l, id)
         THEN ReleaseLease(stored, fault)
    ELSE LET overdue == isLeaseOverdue(l, nhc, remediationCrs, overdueNow)
         IN  IF overdue.err # "nil"
             THEN Outcome(FALSE, 0, overdue.err, stored, NilTime, FALSE)
             ELSE IF overdue.ok
             THEN ReleaseLease(stored, fault)
             ELSE ExtendLease(id, nhc, remediationCrs, l, extendNow, stored, now, fault)

\* l is the lease GetLease returned (lease.go:93) and overdueNow the clock read
\* in isLeaseOverdue (lease.go:169); the write of a branch reaches the store
\* later, when it holds the lease stored at the time now
ManageLease(id, nhc, remediationCrs, l, overdueNow, extendNow, stored, now, fault) ==
    IF fault = "nodeNotFound" THEN Outcome(FALSE, 0, "NotFound", stored, NilTime, FALSE)
    ELSE IF fault = "nodeErr" THEN Outcome(FALSE, 0, "NodeErr", stored, NilTime, FALSE)
    ELSE IF fault = "getErr" THEN Outcome(FALSE, 0, "GetErr", stored, NilTime, FALSE)
    ELSE IF ~l.exists THEN Outcome(FALSE, 0, "nil", stored, NilTime, FALSE)
    ELSE IF ~isRemediationsExist(remediationCrs) /\ isLeaseOwner(l, id)
         THEN ReleaseLease(stored, fault)
    ELSE LET overdue == isLeaseOverdue(l, nhc, remediationCrs, overdueNow)
         IN  IF overdue.err # "nil"
             THEN Outcome(FALSE, 0, overdue.err, stored, NilTime, FALSE)
             ELSE IF overdue.ok
             THEN ReleaseLease(stored, fault)
             ELSE ExtendLease(id, nhc, remediationCrs, l, extendNow, stored, now, fault)

(* ------------------------------------------------------------------------ *)
(* MHC checker, lease.go:204-383 (package mhc)                              *)
(* ------------------------------------------------------------------------ *)
NodeConditionTerminating == "Terminating"

\* type mhcStatus
unknown == "unknown"
noMHC == "noMHC"
terminationMHCOnly == "terminationMHCOnly"
customMHC == "customMHC"

\* the status after UpdateStatus and the error it returns; items is the list
\* the client returns
UpdateStatus(status, items, fault) ==
    IF fault = "listErr" THEN [status |-> status, err |-> "ListErr"]
    ELSE IF Len(items) = 0 THEN [status |-> noMHC, err |-> "nil"]
    ELSE IF Len(items) > 1 THEN [status |-> customMHC, err |-> "nil"]
    ELSE LET mhc == items[1]
         IN  IF Len(mhc) = 1 /\ mhc[1] = NodeConditionTerminating
             THEN [status |-> IF status # terminationMHCOnly
                              THEN terminationMHCOnly ELSE status,
                   err |-> "nil"]
             ELSE [status |-> customMHC, err |-> "nil"]

NeedDisableNHC(status) ==
    IF status \in {unknown, noMHC, terminationMHCOnly} THEN FALSE
    ELSE IF status = customMHC THEN TRUE
    ELSE FALSE

\* whether one of the node's conditions, in order, is of the given type
HasCondition(conditions, type) ==
    \E i \in DOMAIN conditions : conditions[i] = type

\* variant: without the early return for noMHC
NeedIgnoreNode_NoEarlyReturn(status, conditions) ==
    HasCondition(conditions, NodeConditionTerminating)

\* conditions: the types of node.Status.Conditions
NeedIgnoreNode(status, conditions) ==
    IF status = noMHC THEN FALSE
    ELSE HasCondition(conditions, NodeConditionTerminating)

\* DummyChecker.NeedIgnoreNode
DummyNeedIgnoreNode(conditions) == FALSE

(* ------------------------------------------------------------------------ *)
(* State                                                                    *)
(* ------------------------------------------------------------------------ *)
VARIABLES
    now,        \* the wall clock
    lease,      \* the node's lease record in the store
    lastOp,     \* the invocation just made: its inputs, the lease it found, its outcome
    obtained,   \* per instance: ObtainNodeLease returned true and the instance has
                \* not since released the lease or found it gone
    heldUntil,  \* per holder identity: when the TTL of its latest successful
                \* request runs out (0: none, or it has run out, or the identity
                \* has released the lease since)
    mhcList,    \* the MachineHealthChecks of the cluster, each the sequence of the
                \* types of its unhealthy conditions
    mhcStatus,  \* checker.mhcStatus
    lastUpdate, \* seen: the list got by the UpdateStatus that assigned mhcStatus
                \* last; newest: the latest listing among those of the
                \* UpdateStatus calls that have assigned
    pending,    \* per instance: the ManageLease call that has fetched the lease and
                \* has not yet written or returned: the lease it got, and when
    mhcPending  \* per caller: the UpdateStatus call that has listed the MHCs and
                \* has not yet assigned mhcStatus: the list it got

vars ==
    <<now, lease, lastOp, obtained, heldUntil, mhcList, mhcStatus, lastUpdate,
      pending, mhcPending>>

Idle ==
    [op |-> "none", inst |-> "none", kind |-> << >>, nhc |-> << >>,
     remediationCrs |-> << >>, fault |-> "none", pre |-> NoLease,
     out |-> Outcome(FALSE, NilTime, "nil", NoLease, NilTime, FALSE)]

\* the duration the other operator requests its lease for
OtherLeaseDuration == 2 * Minute

\* leases the controller can find in the store when it starts
StartLeases ==
    { NoLease,
      \* its own lease, 28 minutes old, last extended 8 minutes ago
      Lease(holderIdentity, StartTime - 28 * Minute, StartTime - 8 * Minute, 660),
      \* another controller's lease, taken a minute ago
      Lease(otherIdentity, StartTime - Minute, StartTime - Minute, 660),
      \* leases written by others without an acquire time
      Lease(holderIdentity, NilTime, StartTime, 660),
      Lease(otherIdentity, NilTime, StartTime, 660),
      \* a lease with an acquire time only
      Lease(NilHolder, StartTime, NilTime, NilTime) }

\* no list has been seen yet
NotListed == << <<"not listed">> >>

NoUpdate == [seen |-> NotListed, newest |-> NotListed]

\* no ManageLease call of the instance is under way
NoCall == [l |-> NoLease, at |-> NilTime]

\* the callers of UpdateStatus: Start, which calls it once (lease.go:267), and
\* the user of the Checker interface (lease.go:223), which calls it again and
\* again
Callers == {"start", "reconcile"}

\* no UpdateStatus call of the caller is under way.  Of a call under way:
\* latest: no call has listed since this one did; overtaken: a call that listed
\* after this one has assigned.  done: the caller makes no further call.
NoList ==
    [listed |-> FALSE, items |-> << >>, latest |-> FALSE, overtaken |-> FALSE,
     done |-> FALSE]

\* when the TTL of the lease found at the start runs out for its holder
HeldAtStart(l, id) ==
    IF /\ l.exists
       /\ l.holder = id
       /\ l.renewTime # NilTime
       /\ l.durationSeconds # NilTime
       /\ l.renewTime + l.durationSeconds > StartTime
    THEN l.renewTime + l.durationSeconds
    ELSE 0

Init ==
    /\ now = StartTime
    /\ lease \in StartLeases
    /\ lastOp = Idle
    /\ obtained = [i \in Instances |-> FALSE]
    /\ heldUntil = [id \in Identities |-> HeldAtStart(lease, id)]
    /\ mhcList = << >>
    /\ mhcStatus = unknown
    /\ lastUpdate = NoUpdate
    /\ pending = [i \in Instances |-> NoCall]
    /\ mhcPending = [c \in Callers |-> NoList]

\* the ManageLease calls under way
InFlight == {i \in Instances : pending[i] # NoCall}

(* ------------------------------------------------------------------------ *)
(* Actions                                                                  *)
(* ------------------------------------------------------------------------ *)
\* a call of ObtainNodeLease makes one round trip to the store (lease.go:72);
\* an instance is one process, whose calls for the node the scheduler makes one
\* at a time, while the calls of different instances overlap
ObtainNodeLeaseCall ==
    /\ lastOp = Idle
    /\ \E i \in Instances \ InFlight, call \in ObtainCalls :
        LET kind == call.kind
            nhc == call.nhc
            fault == call.fault
            out == ObtainNodeLease(Identity(i), kind, nhc, lease, now, fault)
        IN  /\ lease' = out.lease
            /\ lastOp' = [op |-> "Obtain", inst |-> i, kind |-> kind, nhc |-> nhc,
                          remediationCrs |-> << >>, fault |-> fault, pre |-> lease,
                          stored |-> lease, out |-> out]
            /\ obtained' = IF out.obtained THEN [obtained EXCEPT ![i] = TRUE]
                           ELSE obtained
            /\ heldUntil' = IF out.obtained
                            THEN [heldUntil EXCEPT ![Identity(i)] = now + out.requested]
                            ELSE heldUntil
            /\ UNCHANGED <<now, mhcList, mhcStatus, lastUpdate,
                 pending, mhcPending>>

\* the values the clock had from time from on, up to now
ClockReads(from) == {t \in from..now : (t - from) % Minute = 0}

\* pre: the lease GetLease returned; stored: the lease in the store when the
\* call wrote; overdueNow, extendNow: the clock as read at lease.go:169 and :114
ManageResult(i, nhc, crs, fault, l, overdueNow, extendNow, out) ==
    [op |-> "Manage", inst |-> i, kind |-> << >>, nhc |-> nhc,
     remediationCrs |-> crs, fault |-> fault, pre |-> l, stored |-> lease,
     overdueNow |-> overdueNow, extendNow |-> extendNow, out |-> out]

\* ManageLease up to the answer of GetLease (lease.go:88-100): the call returns
\* here when the node or the lease cannot be fetched, and otherwise goes on
\* with the lease it got, holding nothing in the store
ManageLeaseFetch ==
    /\ lastOp = Idle
    /\ \E i \in Instances, call \in FetchCalls :
        /\ pending[i] = NoCall
        /\ IF call.fault # "none" \/ ~lease.exists
           THEN LET out == ManageLease(Identity(i), call.nhc, call.remediationCrs,
                                       lease, now, now, lease, now, call.fault)
                IN  /\ lastOp' = ManageResult(i, call.nhc, call.remediationCrs,
                                              call.fault, lease, now, now, out)
                    /\ obtained' = IF out.err = "nil"
                                   THEN [obtained EXCEPT ![i] = FALSE]
                                   ELSE obtained
                    /\ UNCHANGED pending
           ELSE /\ pending' = [pending EXCEPT ![i] = [l |-> lease, at |-> now]]
                /\ UNCHANGED <<lastOp, obtained>>
    /\ UNCHANGED <<now, lease, heldUntil, mhcList, mhcStatus, lastUpdate, mhcPending>>

\* the rest of ManageLease (lease.go:102-125) on the lease it got: the clock is
\* read in isLeaseOverdue and again before the extension, at any time since
\* GetLease answered, and the write reaches the store as it is by then
ManageLeaseCall ==
    /\ lastOp = Idle
    /\ \E i \in InFlight, call \in WriteCalls :
        \E overdueNow \in ClockReads(pending[i].at) :
        \E extendNow \in ClockReads(overdueNow) :
        LET nhc == call.nhc
            crs == call.remediationCrs
            fault == call.fault
            out == ManageLease(Identity(i), nhc, crs, pending[i].l, overdueNow,
                               extendNow, lease, now, fault)
            released == out.invalidated /\ out.err = "nil"
            extended == out.requested # NilTime /\ out.err = "nil"
        IN  /\ lease' = out.lease
            /\ lastOp' = ManageResult(i, nhc, crs, fault, pending[i].l, overdueNow,
                                      extendNow, out)
            /\ pending' = [pending EXCEPT ![i] = NoCall]
            /\ obtained' = IF released THEN [obtained EXCEPT ![i] = FALSE]
                           ELSE obtained
            /\ heldUntil' = IF released
                            THEN [heldUntil EXCEPT ![Identity(i)] = 0]
                            ELSE IF extended
                            THEN [heldUntil EXCEPT ![Identity(i)] = now + out.requested]
                            ELSE heldUntil
            /\ UNCHANGED <<now, mhcList, mhcStatus, lastUpdate, mhcPending>>

\* what a call of the other operator did to the store
OtherResult(op, out) ==
    [op |-> op, inst |-> "other", kind |-> << >>, nhc |-> << >>,
     remediationCrs |-> << >>, fault |-> "none", pre |-> lease,
     stored |-> lease, out |-> out]

\* the other operator requests the lease of the node for itself
OtherRequestLease ==
    /\ lastOp = Idle
    /\ LET r == RequestLease(lease, otherIdentity, OtherLeaseDuration, now, "none")
           out == Outcome(r.err = "nil", 0, r.err, r.lease, OtherLeaseDuration, FALSE)
       IN  /\ lease' = out.lease
           /\ lastOp' = OtherResult("OtherRequest", out)
           /\ heldUntil' = IF out.obtained
                           THEN [heldUntil EXCEPT
                                    ![otherIdentity] = now + OtherLeaseDuration]
                           ELSE heldUntil
    /\ UNCHANGED <<now, obtained, mhcList, mhcStatus, lastUpdate, pending, mhcPending>>

\* the other operator gives up the lease it holds
OtherInvalidateLease ==
    /\ lastOp = Idle
    /\ lease.exists
    /\ lease.holder = otherIdentity
    /\ LET r == InvalidateLease(lease, "none")
           out == Outcome(FALSE, 0, r.err, r.lease, NilTime, TRUE)
       IN  /\ lease' = out.lease
           /\ lastOp' = OtherResult("OtherInvalidate", out)
           /\ heldUntil' = [heldUntil EXCEPT ![otherIdentity] = 0]
    /\ UNCHANGED <<now, obtained, mhcList, mhcStatus, lastUpdate, pending, mhcPending>>

\* the clock moves on; a call under way ends within MaxCallTicks minutes
Tick ==
    /\ now + Minute <= MaxTime
    /\ \A i \in InFlight : now + Minute <= pending[i].at + MaxCallTicks * Minute
    /\ now' = now + Minute
    /\ lastOp' = Idle
    /\ heldUntil' = [id \in Identities |->
                        IF heldUntil[id] <= now + Minute THEN 0 ELSE heldUntil[id]]
    /\ UNCHANGED <<lease, obtained, mhcList, mhcStatus, lastUpdate,
                 pending, mhcPending>>

\* the caller has taken the result of the invocation
Return ==
    /\ lastOp # Idle
    /\ lastOp' = Idle
    /\ UNCHANGED <<now, lease, obtained, heldUntil, mhcList, mhcStatus, lastUpdate,
                 pending, mhcPending>>

Next ==
    \/ ObtainNodeLeaseCall
    \/ ManageLeaseFetch
    \/ ManageLeaseCall
    \/ OtherRequestLease
    \/ OtherInvalidateLease
    \/ Return
    \/ Tick

Spec == Init /\ [][Next]_vars

(* ------------------------------------------------------------------------ *)
(* DurationPolicy on its own: every policy of up to MaxSteps steps          *)
(* ------------------------------------------------------------------------ *)
\* longest escalation policy tried
MaxSteps == 2
\* most remediation CRs of one node tried
MaxRemediations == 2

\* template kinds of a step: with the suffix, and one without it
StepKinds == {KindSNR \o <<templateSuffix>>, KindFAR \o <<templateSuffix>>, KindSNR}
\* timeouts of a step: unset, 5 minutes, 20 minutes
StepTimeouts == {0, 5 * Minute, 20 * Minute}
Steps == {EscalatingRemediation(k, t) : k \in StepKinds, t \in StepTimeouts}
PolicySeqs == UNION {[1..n -> Steps] : n \in 0..MaxSteps}

\* kinds of a remediation CR: one of them ends in the suffix itself
RemediationKinds == Kinds \cup {KindSNR \o <<templateSuffix>>}
RemediationSeqs == UNION {[1..n -> Kinds] : n \in 0..MaxRemediations}

DurationResult(op, kind, nhc, crs, duration) ==
    [op |-> op, inst |-> "none", kind |-> kind, nhc |-> nhc,
     remediationCrs |-> crs, fault |-> "none", pre |-> NoLease,
     out |-> Outcome(FALSE, duration, "nil", NoLease, NilTime, FALSE)]

GetLeaseDurationForRemediationCall ==
    /\ lastOp = Idle
    /\ \E kind \in RemediationKinds, nhc \in PolicySeqs :
          lastOp' = DurationResult("DurationForRemediation", kind, nhc, << >>,
                                   getLeaseDurationForRemediation(kind, nhc))
    /\ UNCHANGED <<now, lease, obtained, heldUntil, mhcList, mhcStatus, lastUpdate,
                 pending, mhcPending>>

GetLeaseDurationForRemediationsCall ==
    /\ lastOp = Idle
    /\ \E nhc \in PolicySeqs, crs \in RemediationSeqs :
          lastOp' = DurationResult("DurationForRemediations", << >>, nhc, crs,
                                   getLeaseDurationForRemediations(nhc, crs))
    /\ UNCHANGED <<now, lease, obtained, heldUntil, mhcList, mhcStatus, lastUpdate,
                 pending, mhcPending>>

DurationInit == Init /\ lease = NoLease

DurationNext ==
    \/ GetLeaseDurationForRemediationCall
    \/ GetLeaseDurationForRemediationsCall
    \/ Return

SpecDuration == DurationInit /\ [][DurationNext]_vars

(* ------------------------------------------------------------------------ *)
(* The reconciler keeps managing the lease of a node under remediation      *)
(* ------------------------------------------------------------------------ *)
\* minutes for which the clock reading itself is followed
LiveTicks == 5
LiveMaxTime == StartTime + LiveTicks * Minute

\* From LiveMaxTime on, time is kept relative to the clock: a minute that
\* passes moves every time on record a minute back and leaves the reading at
\* LiveMaxTime.  A time more than its offset and the length of a call before
\* the clock stays as it is: a call has read the clock MaxCallTicks minutes ago
\* at the earliest, and the code compares the reading with time + offset only,
\* so every comparison has the same outcome for all times that old.
Settled(t, offset) ==
    t = NilTime \/ t + offset + (MaxCallTicks + 1) * Minute <= LiveMaxTime

\* the time t as it is on record a minute later
Back(t, offset) == IF Settled(t, offset) THEN t ELSE t - Minute

\* the longest duration a lease is judged overdue by under the policies of
\* this specification
LiveRequired == getLeaseDurationForRemediations(Escalation, <<KindSNR>>)

\* the lease l as it is on record a minute later: acquireTime is compared
\* with the clock at lease.go:169 only, as acquireTime + 3 x the required
\* duration; renewTime at lease.go:115-116 and in the validity check of the
\* store, as renewTime + durationSeconds
Earlier(l) ==
    [l EXCEPT
        !.acquireTime = Back(@, (maxTimesToExtendLease + 1) * LiveRequired),
        !.renewTime = Back(@, IF l.durationSeconds = NilTime THEN 0
                              ELSE l.durationSeconds * Second)]

LivePolicies == {Escalation}
ActiveRemediationLists == { <<KindSNR>> }

\* the replicas whose reconciles manage the lease of the node
Reconciles == {"nhc-1", "nhc-2"}

\* the reconciler of any replica obtains the lease before it creates a
\* remediation CR, at any time, whatever calls are under way
LiveObtain ==
    \E r \in Reconciles, kind \in {KindSNR}, nhc \in LivePolicies :
        LET out == ObtainNodeLease(holderIdentity, kind, nhc, lease, now, "none")
        IN  /\ lease' = out.lease
            /\ lastOp' = [op |-> "Obtain", inst |-> r, kind |-> kind,
                          nhc |-> nhc, remediationCrs |-> << >>, fault |-> "none",
                          pre |-> lease, stored |-> lease, out |-> out]
            /\ UNCHANGED <<now, obtained, heldUntil, mhcList, mhcStatus, lastUpdate,
                 pending, mhcPending>>

\* the reconciler is requeued, after the returned duration or after an error,
\* and calls ManageLease again; the node and the store answer
LiveManageFetch ==
    \E r \in Reconciles, nhc \in LivePolicies, crs \in ActiveRemediationLists :
        /\ pending[r] = NoCall
        /\ IF ~lease.exists
           THEN /\ lastOp' = ManageResult(r, nhc, crs, "none", lease, now, now,
                                 ManageLease(holderIdentity, nhc, crs, lease, now,
                                             now, lease, now, "none"))
                /\ UNCHANGED pending
           ELSE /\ pending' = [pending EXCEPT ![r] = [l |-> lease, at |-> now]]
                /\ UNCHANGED lastOp
        /\ UNCHANGED <<now, lease, obtained, heldUntil, mhcList, mhcStatus,
                       lastUpdate, mhcPending>>

\* the reconcile r goes on from the lease it got
LiveManageCall(r) ==
    /\ pending[r] # NoCall
    /\ \E nhc \in LivePolicies, crs \in ActiveRemediationLists :
        \E overdueNow \in ClockReads(pending[r].at) :
        \E extendNow \in ClockReads(overdueNow) :
        LET out == ManageLease(holderIdentity, nhc, crs, pending[r].l, overdueNow,
                               extendNow, lease, now, "none")
        IN  /\ lease' = out.lease
            /\ lastOp' = ManageResult(r, nhc, crs, "none", pending[r].l,
                                      overdueNow, extendNow, out)
            /\ pending' = [pending EXCEPT ![r] = NoCall]
            /\ UNCHANGED <<now, obtained, heldUntil, mhcList, mhcStatus,
                           lastUpdate, mhcPending>>

\* a minute passes; a call under way ends within MaxCallTicks minutes
LiveTick ==
    /\ \A r \in InFlight : now + Minute <= pending[r].at + MaxCallTicks * Minute
    /\ lastOp' = Idle
    /\ IF now + Minute <= LiveMaxTime
       THEN /\ now' = now + Minute
            /\ UNCHANGED <<lease, pending>>
       ELSE /\ now' = now
            /\ lease' = Earlier(lease)
            /\ pending' = [r \in Instances |->
                              IF pending[r] = NoCall THEN NoCall
                              ELSE [l |-> Earlier(pending[r].l),
                                    at |-> pending[r].at - Minute]]
    /\ UNCHANGED <<obtained, heldUntil, mhcList, mhcStatus, lastUpdate, mhcPending>>

LiveNext ==
    \/ LiveObtain
    \/ LiveManageFetch
    \/ \E r \in Reconciles : LiveManageCall(r)
    \/ LiveTick

\* the start of the controller; who counts as active remediator is not
\* followed here
LiveInit ==
    /\ now = StartTime
    /\ lease \in StartLeases
    /\ lastOp = Idle
    /\ obtained = [i \in Instances |-> FALSE]
    /\ heldUntil = [id \in Identities |-> 0]
    /\ mhcList = << >>
    /\ mhcStatus = unknown
    /\ lastUpdate = NoUpdate
    /\ pending = [i \in Instances |-> NoCall]
    /\ mhcPending = [c \in Callers |-> NoList]

\* time advances whatever the calls do, the requeued reconcile is eventually
\* run, and a call under way ends
SpecLive ==
    /\ LiveInit
    /\ [][LiveNext]_vars
    /\ SF_vars(LiveTick)
    /\ WF_vars(LiveManageFetch)
    /\ \A r \in Reconciles : WF_vars(LiveManageCall(r))

(* ------------------------------------------------------------------------ *)
(* The MHC checker and the MachineHealthChecks of the cluster               *)
(* ------------------------------------------------------------------------ *)
\* most MachineHealthChecks in the cluster
MaxMHCs == 2
\* most unhealthy conditions of one MachineHealthCheck
MaxConditions == 1

\* "Dummy" is the condition type of the custom MHC of e2e_test.go:91-95
ConditionTypes == {NodeConditionTerminating, "Dummy"}
MHCs == UNION {[1..n -> ConditionTypes] : n \in 0..MaxConditions}
ListFaults == {"none", "listErr"}

RemoveAt(seq, i) == SubSeq(seq, 1, i - 1) \o SubSeq(seq, i + 1, Len(seq))

CreateMHC ==
    /\ Len(mhcList) < MaxMHCs
    /\ \E mhc \in MHCs : mhcList' = Append(mhcList, mhc)
    /\ UNCHANGED <<now, lease, lastOp, obtained, heldUntil, mhcStatus, lastUpdate,
                 pending, mhcPending>>

DeleteMHC ==
    /\ \E i \in DOMAIN mhcList : mhcList' = RemoveAt(mhcList, i)
    /\ UNCHANGED <<now, lease, lastOp, obtained, heldUntil, mhcStatus, lastUpdate,
                 pending, mhcPending>>

\* UpdateStatus up to the answer of the List (lease.go:278-282): the call
\* returns the error of the List, or goes on with the list it got
UpdateStatusList ==
    /\ \E c \in Callers, fault \in ListFaults :
        /\ ~mhcPending[c].listed
        /\ ~mhcPending[c].done
        /\ IF fault # "none"
           THEN /\ mhcStatus' = UpdateStatus(mhcStatus, mhcList, fault).status
                /\ mhcPending' = [mhcPending EXCEPT ![c].done = (c = "start")]
           ELSE /\ mhcPending' =
                     [d \in Callers |->
                        IF d = c
                        THEN [listed |-> TRUE, items |-> mhcList, latest |-> TRUE,
                              overtaken |-> FALSE, done |-> FALSE]
                        ELSE [mhcPending[d] EXCEPT !.latest = FALSE]]
                /\ UNCHANGED mhcStatus
    /\ UNCHANGED <<now, lease, lastOp, obtained, heldUntil, mhcList, lastUpdate,
                   pending>>

\* the rest of UpdateStatus (lease.go:284-320): mhcStatus is assigned from the
\* list the call got, whatever the cluster and the other calls did since
UpdateStatusCall ==
    /\ \E c \in Callers :
        /\ mhcPending[c].listed
        /\ LET call == mhcPending[c]
               r == UpdateStatus(mhcStatus, call.items, "none")
           IN  /\ mhcStatus' = r.status
               /\ lastUpdate' = [seen |-> call.items,
                                 newest |-> IF call.overtaken THEN lastUpdate.newest
                                            ELSE call.items]
               /\ mhcPending' =
                     [d \in Callers |->
                        IF d = c THEN [NoList EXCEPT !.done = (c = "start")]
                        ELSE IF mhcPending[d].listed /\ call.latest
                        THEN [mhcPending[d] EXCEPT !.overtaken = TRUE]
                        ELSE mhcPending[d]]
    /\ UNCHANGED <<now, lease, lastOp, obtained, heldUntil, mhcList, pending>>

MHCInit == Init /\ lease = NoLease

MHCNext == CreateMHC \/ DeleteMHC \/ UpdateStatusList \/ UpdateStatusCall

SpecMHC == MHCInit /\ [][MHCNext]_vars

(* ------------------------------------------------------------------------ *)
(* NeedIgnoreNode on its own: every node, in every status of the checker    *)
(* ------------------------------------------------------------------------ *)
\* most conditions of a node
MaxNodeConditions == 3

\* "Ready" stands for the conditions a node has besides Terminating
NodeConditionTypes == {"Ready", NodeConditionTerminating}
NodeConditionLists == UNION {[1..n -> NodeConditionTypes] : n \in 0..MaxNodeConditions}

\* the checker of an OpenShift cluster, and the one of any other cluster
Checkers == {"checker", "DummyChecker"}

\* status: the checker's mhcStatus at the call
IgnoreResult(c, status, conditions, ignore) ==
    [op |-> "NeedIgnoreNode", inst |-> c, status |-> status,
     kind |-> conditions, nhc |-> << >>,
     remediationCrs |-> << >>, fault |-> "none", pre |-> NoLease,
     out |-> Outcome(ignore, NilTime, "nil", NoLease, NilTime, FALSE)]

\* the reconciler asks whether to skip an unhealthy node; the answer is kept in
\* out.obtained of lastOp
NeedIgnoreNodeCall ==
    /\ \E c \in Checkers, conditions \in NodeConditionLists :
          lastOp' = IgnoreResult(c, mhcStatus, conditions,
                        IF c = "checker" THEN NeedIgnoreNode(mhcStatus, conditions)
                        ELSE DummyNeedIgnoreNode(conditions))
    /\ UNCHANGED <<now, lease, obtained, heldUntil, mhcList, mhcStatus, lastUpdate,
                 pending, mhcPending>>

\* the clusters the checker is started in: no MHC, the termination handler's
\* MHC, the custom MHC of e2e_test.go:80-97, both
StartClusters ==
    { << >>, << <<NodeConditionTerminating>> >>, << <<"Dummy">> >>,
      << <<NodeConditionTerminating>>, <<"Dummy">> >> }

\* the checker as constructed, or after the UpdateStatus that Start makes
IgnoreInit ==
    /\ now = StartTime
    /\ lease = NoLease
    /\ lastOp = Idle
    /\ obtained = [i \in Instances |-> FALSE]
    /\ heldUntil = [id \in Identities |-> 0]
    /\ pending = [i \in Instances |-> NoCall]
    /\ mhcList \in StartClusters
    /\ \/ /\ mhcStatus = unknown
          /\ mhcPending = [c \in Callers |-> NoList]
          /\ lastUpdate = NoUpdate
       \/ /\ mhcStatus = UpdateStatus(unknown, mhcList, "none").status
          /\ mhcPending = [c \in Callers |->
                              [NoList EXCEPT !.done = (c = "start")]]
          /\ lastUpdate = [seen |-> mhcList, newest |-> mhcList]

IgnoreNext == NeedIgnoreNodeCall

SpecIgnore == IgnoreInit /\ [][IgnoreNext]_vars

(* ------------------------------------------------------------------------ *)
(* The durations as the specification states them (sections 4.1 and 4.2)    *)
(* ------------------------------------------------------------------------ *)
MaxOf(S) == CHOOSE x \in S : \A y \in S : y <= x
MinOf(S) == CHOOSE x \in S : \A y \in S : x <= y

\* timeout of the first step whose kind without the suffix is the remediation's
\* kind; the default when there is none or when that timeout is zero
durationForRemediation(kind, policy) ==
    LET matching == {k \in DOMAIN policy :
                        \/ policy[k].kind = kind \o <<"Template">>
                        \/ /\ policy[k].kind = kind
                           /\ (kind = << >> \/ kind[Len(kind)] # "Template")}
    IN  IF matching = {} THEN 600
        ELSE IF policy[MinOf(matching)].timeout = 0 THEN 600
        ELSE policy[MinOf(matching)].timeout

\* the default without a policy, else the maximum over the remediations (zero
\* over none)
requiredDuration(policy, remediations) ==
    IF policy = << >> THEN 600
    ELSE IF remediations = << >> THEN 0
    ELSE MaxOf({durationForRemediation(remediations[k], policy) :
                    k \in DOMAIN remediations})

\* the invocation just made reached the store and found a lease there
ManagedALease ==
    /\ lastOp.op = "Manage"
    /\ lastOp.fault \in {"none", "writeErr"}
    /\ lastOp.pre.exists

\* ManageLease takes its first branch: no remediation is left and the caller owns the lease
NoWorkLeft ==
    /\ lastOp.remediationCrs = << >>
    /\ lastOp.pre.holder = Identity(lastOp.inst)

LastRequired == requiredDuration(lastOp.nhc, lastOp.remediationCrs)

StoredExpiry(l) == l.renewTime + l.durationSeconds

(* ------------------------------------------------------------------------ *)
(* C1                                                                       *)
(* ------------------------------------------------------------------------ *)
\* a replica counts as active remediator from an ObtainNodeLease that returned
\* true until it releases the lease or finds it gone, or the TTL of the latest
\* successful request of its identity runs out
ActiveReplica(i) == obtained[i] /\ heldUntil[holderIdentity] > now

\* the controller with the other identity counts as active remediator from a
\* successful request until it releases the lease or its TTL runs out
ActiveOther == heldUntil[otherIdentity] > now

\* C1, as claimed: no two instances, replicas of this controller or the
\* controller with the other identity, are active remediators of the node at
\* the same moment.
C1_MutualExclusion ==
    /\ \A i, j \in Instances : i # j => ~(ActiveReplica(i) /\ ActiveReplica(j))
    /\ \A i \in Instances : ~(ActiveReplica(i) /\ ActiveOther)

(* ------------------------------------------------------------------------ *)
(* C2                                                                       *)
(* ------------------------------------------------------------------------ *)
\* C2, as claimed: a lease written by an invocation is held, from its acquire
\* time to its stored expiry, for no more than (maxExtensions + 1) = 3 times the
\* duration required by that invocation.
C2_BoundedLifetime ==
    ( /\ lastOp.op = "Manage"
      /\ lastOp.out.err = "nil"
      /\ lastOp.out.requested # NilTime
      /\ lastOp.pre.holder = Identity(lastOp.inst)
      /\ lease.acquireTime # NilTime )
    => StoredExpiry(lease) - lease.acquireTime <= 3 * LastRequired

(* ------------------------------------------------------------------------ *)
(* C3                                                                       *)
(* ------------------------------------------------------------------------ *)
\* C3, as claimed: with no remediation left, ManageLease leaves a lease held by
\* another identity as it found it.
C3_ForeignLeaseUntouched ==
    ( /\ ManagedALease
      /\ lastOp.remediationCrs = << >>
      /\ lastOp.pre.holder # Identity(lastOp.inst) )
    => /\ lease = lastOp.stored
       /\ ~lastOp.out.invalidated
       /\ lastOp.out.requested = NilTime

(* ------------------------------------------------------------------------ *)
(* C4                                                                       *)
(* ------------------------------------------------------------------------ *)
\* C4: when ManageLease finds a lease of its own identity and no remediation is
\* left, it invalidates the lease and returns 0 with the error of the release;
\* when the release succeeds the error is nil and the node has no lease.
C4_ReleaseWhenNoWork ==
    (ManagedALease /\ NoWorkLeft)
    => /\ lastOp.out.invalidated
       /\ lastOp.out.requested = NilTime
       /\ lastOp.out.recheck = 0
       /\ lastOp.fault = "none" => (lastOp.out.err = "nil" /\ ~lease.exists)
       /\ lastOp.fault = "writeErr"
          => (lastOp.out.err = "StoreErr" /\ lease = lastOp.stored)

\* an own lease that is neither overdue nor expired is released for lack of work
C4_Witness ==
    /\ ManagedALease /\ NoWorkLeft
    /\ lastOp.fault = "none"
    /\ lastOp.pre.acquireTime # NilTime
    /\ now < StoredExpiry(lastOp.pre)
    /\ now <= lastOp.pre.acquireTime + 3 * LastRequired
    /\ ~lease.exists

(* ------------------------------------------------------------------------ *)
(* C5                                                                       *)
(* ------------------------------------------------------------------------ *)
\* C5: ObtainNodeLease on a lease another holder has with TTL remaining returns
\* (false, one minute, AlreadyHeld) and leaves the lease as it was; a failure of
\* the store returns (false, nil, that error).
C5_ObtainContention ==
    lastOp.op = "Obtain" =>
       /\ ( /\ lastOp.fault = "none"
            /\ lastOp.pre.exists
            /\ lastOp.pre.holder # Identity(lastOp.inst)
            /\ lastOp.pre.renewTime # NilTime
            /\ now < StoredExpiry(lastOp.pre) )
          => /\ ~lastOp.out.obtained
             /\ lastOp.out.recheck = 60
             /\ lastOp.out.err = "AlreadyHeld"
             /\ lease = lastOp.pre
       /\ lastOp.fault = "writeErr"
          => /\ ~lastOp.out.obtained
             /\ lastOp.out.recheck = NilTime
             /\ lastOp.out.err = "StoreErr"
             /\ lease = lastOp.pre

\* this controller is turned away from the other controller's valid lease
C5_Witness ==
    /\ lastOp.op = "Obtain"
    /\ lastOp.inst = "nhc-1"
    /\ lastOp.fault = "none"
    /\ lastOp.pre.holder = otherIdentity
    /\ lastOp.pre.acquireTime # NilTime
    /\ lastOp.out.err = "AlreadyHeld"

(* ------------------------------------------------------------------------ *)
(* C6                                                                       *)
(* ------------------------------------------------------------------------ *)
\* C6: ObtainNodeLease requests the TTL durationForRemediation + leaseBuffer and,
\* when the store accepts, returns (true, durationForRemediation, nil): the
\* buffer is in the TTL and not in the hint.
C6_ObtainSuccess ==
    (lastOp.op = "Obtain" /\ lastOp.fault \in {"none", "writeErr"})
    => /\ lastOp.out.requested = durationForRemediation(lastOp.kind, lastOp.nhc) + 60
       /\ lastOp.out.err = "nil"
          => /\ lastOp.out.obtained
             /\ lastOp.out.recheck = durationForRemediation(lastOp.kind, lastOp.nhc)
             /\ lease.exists
             /\ lease.holder = Identity(lastOp.inst)
             /\ lease.renewTime = now
             /\ lease.durationSeconds = lastOp.out.recheck + 60

\* a lease is created for an SNR remediation under the escalation policy
C6_Witness ==
    /\ lastOp.op = "Obtain"
    /\ lastOp.out.obtained
    /\ ~lastOp.pre.exists
    /\ lastOp.out.recheck = Minute
    /\ lease.durationSeconds = 2 * Minute

(* ------------------------------------------------------------------------ *)
(* C7                                                                       *)
(* ------------------------------------------------------------------------ *)
\* C7: when the lease it fetched is not released for lack of work and is not
\* found overdue, ManageLease requests the lease, with TTL requiredDuration +
\* leaseBuffer, exactly when renewTime + durationSeconds is before now +
\* requiredDuration, now being the clock as read for the extension; it writes
\* nothing otherwise, and returns (requiredDuration, nil) unless the request
\* fails.
C7_ExtensionRule ==
    ( /\ ManagedALease
      /\ ~NoWorkLeft
      /\ lastOp.pre.acquireTime # NilTime
      /\ lastOp.pre.renewTime # NilTime
      /\ lastOp.pre.durationSeconds # NilTime
      /\ ~(lastOp.overdueNow > lastOp.pre.acquireTime + 3 * LastRequired) )
    => /\ ~lastOp.out.invalidated
       /\ (lastOp.out.requested # NilTime)
             <=> (StoredExpiry(lastOp.pre) < lastOp.extendNow + LastRequired)
       /\ lastOp.out.requested # NilTime => lastOp.out.requested = LastRequired + 60
       /\ lastOp.out.requested = NilTime => lease = lastOp.stored
       /\ lastOp.out.err = "nil" => lastOp.out.recheck = LastRequired

\* the owner's lease ends exactly at now + requiredDuration: no extension
C7_Witness ==
    /\ ManagedALease
    /\ lastOp.pre.holder = Identity(lastOp.inst)
    /\ lastOp.remediationCrs # << >>
    /\ lastOp.pre.acquireTime # NilTime
    /\ StoredExpiry(lastOp.pre) = lastOp.extendNow + LastRequired
    /\ lastOp.out.requested = NilTime
    /\ lastOp.out.recheck = LastRequired
    /\ lastOp.out.err = "nil"

(* ------------------------------------------------------------------------ *)
(* C8                                                                       *)
(* ------------------------------------------------------------------------ *)
\* C8: for a lease with an acquire time, isLeaseOverdue reports no error and is
\* true exactly when now > acquireTime + 3 x requiredDuration, now being the
\* clock as isLeaseOverdue reads it.
C8_OverdueIff ==
    (ManagedALease /\ lastOp.pre.acquireTime # NilTime)
    => LET overdue == isLeaseOverdue(lastOp.pre, lastOp.nhc, lastOp.remediationCrs,
                                     lastOp.overdueNow)
       IN  /\ overdue.err = "nil"
           /\ overdue.ok
                <=> lastOp.overdueNow > lastOp.pre.acquireTime + 3 * LastRequired

\* a lease that requires ten minutes is overdue one minute after acquireTime + 30 minutes
C8_Witness ==
    /\ ManagedALease
    /\ lastOp.pre.acquireTime # NilTime
    /\ LastRequired = 600
    /\ lastOp.overdueNow = lastOp.pre.acquireTime + 1800 + 60
    /\ isLeaseOverdue(lastOp.pre, lastOp.nhc, lastOp.remediationCrs,
                      lastOp.overdueNow).ok
    /\ lastOp.out.invalidated

(* ------------------------------------------------------------------------ *)
(* C9                                                                       *)
(* ------------------------------------------------------------------------ *)
\* C9: whenever ManageLease fetches a lease that isLeaseOverdue reports as
\* overdue, it invalidates the lease, whoever holds it, and returns 0 with the
\* error of the release; it does not request (extend) such a lease.
C9_OverdueRelease ==
    ( /\ ManagedALease
      /\ ~NoWorkLeft
      /\ lastOp.pre.acquireTime # NilTime
      /\ isLeaseOverdue(lastOp.pre, lastOp.nhc, lastOp.remediationCrs,
                        lastOp.overdueNow).ok )
    => /\ lastOp.out.invalidated
       /\ lastOp.out.requested = NilTime
       /\ lastOp.out.recheck = 0
       /\ lastOp.fault = "none" => (lastOp.out.err = "nil" /\ ~lease.exists)
       /\ lastOp.fault = "writeErr"
          => (lastOp.out.err = "StoreErr" /\ lease = lastOp.stored)

\* an overdue lease of another holder is released while remediations are active
C9_Witness ==
    /\ ManagedALease
    /\ lastOp.fault = "none"
    /\ lastOp.remediationCrs # << >>
    /\ lastOp.pre.holder = otherIdentity
    /\ lastOp.pre.holder # Identity(lastOp.inst)
    /\ lastOp.pre.acquireTime # NilTime
    /\ LastRequired > 0
    /\ isLeaseOverdue(lastOp.pre, lastOp.nhc, lastOp.remediationCrs,
                      lastOp.overdueNow).ok
    /\ lastOp.stored = lastOp.pre
    /\ lastOp.out.invalidated
    /\ lastOp.out.err = "nil"
    /\ lastOp.out.recheck = 0
    /\ ~lease.exists

(* ------------------------------------------------------------------------ *)
(* C10                                                                      *)
(* ------------------------------------------------------------------------ *)
\* C10, as claimed: ManageLease on a lease without acquire time returns the
\* malformed-lease error and neither releases nor requests the lease, for every
\* holder, policy and remediation set.
C10_MalformedAlways ==
    (ManagedALease /\ lastOp.pre.acquireTime = NilTime)
    => /\ lastOp.out.err = "Malformed"
       /\ ~lastOp.out.invalidated
       /\ lastOp.out.requested = NilTime
       /\ lease = lastOp.stored

\* C10, amended: ManageLease on a lease without acquire time returns the
\* malformed-lease error and neither releases nor requests the lease, unless no
\* remediation is left and the lease is its own: then it releases the lease.
C10_MalformedUnlessNoWork ==
    (ManagedALease /\ lastOp.pre.acquireTime = NilTime /\ ~NoWorkLeft)
    => /\ lastOp.out.err = "Malformed"
       /\ lastOp.out.recheck = 0
       /\ ~lastOp.out.invalidated
       /\ lastOp.out.requested = NilTime
       /\ lease = lastOp.stored

\* the error is returned for an own lease with remediations active
C10_Witness ==
    /\ ManagedALease
    /\ lastOp.pre.acquireTime = NilTime
    /\ lastOp.pre.holder = Identity(lastOp.inst)
    /\ lastOp.remediationCrs # << >>
    /\ lastOp.out.err = "Malformed"
    /\ lease = lastOp.stored

(* ------------------------------------------------------------------------ *)
(* C11                                                                      *)
(* ------------------------------------------------------------------------ *)
\* C11: when the store has no lease for the node, ManageLease returns (0, nil)
\* and writes nothing: no lease is created, extended or released.
C11_NoLeaseNoOp ==
    ( /\ lastOp.op = "Manage"
      /\ lastOp.fault \in {"none", "writeErr"}
      /\ ~lastOp.pre.exists )
    => /\ lastOp.out.recheck = 0
       /\ lastOp.out.err = "nil"
       /\ ~lastOp.out.invalidated
       /\ lastOp.out.requested = NilTime
       /\ ~lease.exists

\* ManageLease with active remediations finds no lease
C11_Witness ==
    /\ lastOp.op = "Manage"
    /\ lastOp.fault = "none"
    /\ lastOp.remediationCrs # << >>
    /\ ~lastOp.pre.exists
    /\ lastOp.out.err = "nil"
    /\ ~lease.exists

(* ------------------------------------------------------------------------ *)
(* C12                                                                      *)
(* ------------------------------------------------------------------------ *)
\* C12, as claimed: when the node is not found, ObtainNodeLease and ManageLease
\* return no error to the caller.
C12_AbsentNodeBenign ==
    (lastOp.op \in {"Obtain", "Manage"} /\ lastOp.fault = "nodeNotFound")
    => lastOp.out.err = "nil"

(* ------------------------------------------------------------------------ *)
(* C13                                                                      *)
(* ------------------------------------------------------------------------ *)
\* C13, as claimed: whenever ObtainNodeLease or ManageLease returns the
\* AlreadyHeld error, it returns the hint requeueIfTaken (one minute) with it.
C13_AlreadyHeldWithHint ==
    (lastOp.op \in {"Obtain", "Manage"} /\ lastOp.out.err = "AlreadyHeld")
    => lastOp.out.recheck = 60

(* ------------------------------------------------------------------------ *)
(* C14                                                                      *)
(* ------------------------------------------------------------------------ *)
\* C14: getLeaseDurationForRemediation returns the timeout of the first step, in
\* list order, whose kind without the suffix "Template" is the remediation's
\* kind; the default when no step matches and when that first step's timeout is
\* zero, whatever later steps of the same kind say.
C14_DurationForRemediation ==
    lastOp.op = "DurationForRemediation"
    => lastOp.out.recheck = durationForRemediation(lastOp.kind, lastOp.nhc)

\* the first SNR step has no timeout and a later SNR step has one: the default
C14_Witness ==
    /\ lastOp.op = "DurationForRemediation"
    /\ lastOp.kind = <<"SNR">>
    /\ lastOp.nhc = << [kind |-> <<"SNR", "Template">>, timeout |-> 0],
                       [kind |-> <<"SNR", "Template">>, timeout |-> 300] >>
    /\ lastOp.out.recheck = 600

(* ------------------------------------------------------------------------ *)
(* C15                                                                      *)
(* ------------------------------------------------------------------------ *)
\* C15: getLeaseDurationForRemediations returns the default for an empty policy
\* whatever the remediations; for a non-empty policy the maximum of the
\* durations of the remediations, and zero when there is no remediation.
C15_RequiredDuration ==
    lastOp.op = "DurationForRemediations"
    => /\ lastOp.out.recheck = requiredDuration(lastOp.nhc, lastOp.remediationCrs)
       /\ lastOp.nhc = << >> => lastOp.out.recheck = 600
       /\ (lastOp.nhc # << >> /\ lastOp.remediationCrs = << >>)
             => lastOp.out.recheck = 0

\* policy [(SNR, 5m), (FAR, 20m)] with both kinds active gives 20m
C15_Witness ==
    /\ lastOp.op = "DurationForRemediations"
    /\ lastOp.nhc = << [kind |-> <<"SNR", "Template">>, timeout |-> 300],
                       [kind |-> <<"FAR", "Template">>, timeout |-> 1200] >>
    /\ lastOp.remediationCrs = << <<"SNR">>, <<"FAR">> >>
    /\ lastOp.out.recheck = 1200

(* ------------------------------------------------------------------------ *)
(* C16                                                                      *)
(* ------------------------------------------------------------------------ *)
\* C16, as claimed: ManageLease changes the renew time, the duration or the
\* holder of the lease in the store only when the lease it fetched is held by
\* the caller's own identity; when it fetched a lease of another identity, the
\* lease in the store is left as it is, or released, never extended or taken
\* over.
C16_OnlyOwnerExtends ==
    ( /\ lastOp.op = "Manage"
      /\ lastOp.pre.exists
      /\ lastOp.pre.holder # Identity(lastOp.inst) )
    => ( lease.exists
         => /\ lastOp.stored.exists
            /\ lease.holder = lastOp.stored.holder
            /\ lease.renewTime = lastOp.stored.renewTime
            /\ lease.durationSeconds = lastOp.stored.durationSeconds )

(* ------------------------------------------------------------------------ *)
(* C17                                                                      *)
(* ------------------------------------------------------------------------ *)
\* C17: the acquire time is fixed for the life of a lease.  An ObtainNodeLease
\* or ManageLease by the identity that holds the lease in the store when the
\* call writes, if it leaves a lease in the store, leaves it with the acquire
\* time it had.
C17_AcquireTimeFixed ==
    ( /\ lastOp.op \in {"Obtain", "Manage"}
      /\ lastOp.stored.exists
      /\ lastOp.stored.holder = Identity(lastOp.inst)
      /\ lease.exists )
    => lease.acquireTime = lastOp.stored.acquireTime

\* the owner extends, minutes later, a lease obtained in this run
C17_Witness ==
    /\ lastOp.op = "Manage"
    /\ lastOp.inst = "nhc-1"
    /\ lastOp.pre.holder = holderIdentity
    /\ lastOp.pre.acquireTime >= StartTime
    /\ lastOp.stored = lastOp.pre
    /\ lastOp.out.err = "nil"
    /\ lastOp.out.requested # NilTime
    /\ lease.renewTime = now
    /\ lease.renewTime > lastOp.pre.renewTime
    /\ lease.acquireTime < now

(* ------------------------------------------------------------------------ *)
(* C18                                                                      *)
(* ------------------------------------------------------------------------ *)
\* C18, as claimed: while the reconciler keeps calling ManageLease with active
\* remediations and time advances, from every state with a lease a state
\* without a lease is reached.
C18_EventuallyReleased ==
    lease.exists ~> ~lease.exists

\* C18, amended: while the reconciler keeps calling ManageLease with active
\* remediations and time advances, from every state with a lease that has an
\* acquire time a state without a lease is reached.
C18_AcquiredEventuallyReleased ==
    (lease.exists /\ lease.acquireTime # NilTime) ~> ~lease.exists

\* a lease obtained and extended in this run is released as overdue while its
\* remediation is still active
C18_Witness ==
    /\ lastOp.op = "Manage"
    /\ lastOp.remediationCrs # << >>
    /\ lastOp.pre.holder = holderIdentity
    /\ lastOp.pre.acquireTime >= StartTime
    /\ lastOp.pre.renewTime > lastOp.pre.acquireTime
    /\ lastOp.overdueNow > lastOp.pre.acquireTime + 3 * LastRequired
    /\ lastOp.out.invalidated
    /\ lastOp.out.err = "nil"
    /\ ~lease.exists

(* ------------------------------------------------------------------------ *)
(* C19                                                                      *)
(* ------------------------------------------------------------------------ *)
\* C19: a lease expires by itself.  Every lease written by ObtainNodeLease or
\* ManageLease is renewed at the time of the call for the required duration
\* plus the buffer, and once the clock passes renew time + duration of a lease,
\* a request by another holder identity that reaches the store obtains the
\* lease.
C19_SelfExpiry ==
    /\ ( /\ lastOp.op \in {"Obtain", "Manage"}
         /\ lastOp.out.err = "nil"
         /\ lastOp.out.requested # NilTime )
       => /\ lease.exists
          /\ lease.holder = Identity(lastOp.inst)
          /\ lease.renewTime = now
          /\ lease.durationSeconds = lastOp.out.requested
          /\ lastOp.out.requested =
                LeaseBuffer + ( IF lastOp.op = "Obtain"
                                THEN durationForRemediation(lastOp.kind, lastOp.nhc)
                                ELSE LastRequired )
          /\ StoredExpiry(lease) <= now + DefaultLeaseDuration + LeaseBuffer
    /\ ( /\ lastOp.op \in {"Obtain", "OtherRequest"}
         /\ lastOp.fault = "none"
         /\ lastOp.pre.exists
         /\ lastOp.pre.holder # Identity(lastOp.inst)
         /\ lastOp.pre.renewTime # NilTime
         /\ lastOp.pre.durationSeconds # NilTime
         /\ now > StoredExpiry(lastOp.pre) )
       => /\ lastOp.out.obtained
          /\ lastOp.out.err = "nil"
          /\ lease.holder = Identity(lastOp.inst)

\* the owner falls silent: a lease this controller wrote in this run with a TTL
\* of the required minute plus the buffer has run out, and the request of the
\* other holder identity takes it over
C19_Witness ==
    /\ lastOp.op = "OtherRequest"
    /\ lastOp.pre.exists
    /\ lastOp.pre.holder = holderIdentity
    /\ lastOp.pre.renewTime >= StartTime
    /\ lastOp.pre.durationSeconds = Minute + LeaseBuffer
    /\ now > StoredExpiry(lastOp.pre)
    /\ lastOp.out.obtained
    /\ lastOp.out.err = "nil"
    /\ lease.holder = otherIdentity
    /\ lease.acquireTime = now

(* ------------------------------------------------------------------------ *)
(* C20                                                                      *)
(* ------------------------------------------------------------------------ *)
\* the MHC of the termination handler: exactly one unhealthy condition, of type
\* Terminating
IsTerminationHandler(mhc) == mhc = <<"Terminating">>

\* the list holds more than one MachineHealthCheck, or exactly one that is not
\* the termination handler's
ListsCustomMHC(items) ==
    \/ Len(items) > 1
    \/ /\ Len(items) = 1
       /\ ~IsTerminationHandler(items[1])

\* C20, as claimed: NeedDisableNHC is false before the first UpdateStatus that
\* succeeds; after one, it is true exactly when the latest listing made by an
\* UpdateStatus that succeeded holds more than one MachineHealthCheck, or
\* exactly one that is not the termination handler's.  An UpdateStatus that
\* listed before another one and assigns after it leaves the status of the
\* older listing.
C20_DisableTracksListing ==
    IF lastUpdate.newest = NotListed
    THEN ~NeedDisableNHC(mhcStatus)
    ELSE NeedDisableNHC(mhcStatus) <=> ListsCustomMHC(lastUpdate.newest)

(* ------------------------------------------------------------------------ *)
(* C21                                                                      *)
(* ------------------------------------------------------------------------ *)
\* the node of the call just made carries a condition of type Terminating
LastNodeTerminating ==
    \E i \in DOMAIN lastOp.kind : lastOp.kind[i] = "Terminating"

\* C21, as claimed: in every status in which NHC is enabled (unknown, noMHC,
\* terminationMHCOnly) the checker's NeedIgnoreNode is true for a node with a
\* Terminating condition, and false for a node without one.
C21_TerminatingIgnored ==
    ( /\ lastOp.op = "NeedIgnoreNode"
      /\ lastOp.inst = "checker"
      /\ ~NeedDisableNHC(lastOp.status) )
    => (lastOp.out.obtained <=> LastNodeTerminating)

\* C21, amended: the checker's NeedIgnoreNode is true exactly for a node with a
\* Terminating condition in every status but noMHC; in status noMHC, and for
\* the DummyChecker, it is false for every node.
C21_TerminatingIgnoredUnlessNoMHC ==
    lastOp.op = "NeedIgnoreNode"
    => ( lastOp.out.obtained
         <=> /\ lastOp.inst = "checker"
             /\ lastOp.status # "noMHC"
             /\ LastNodeTerminating )

\* with the termination handler's MHC listed, a node whose second condition is
\* Terminating is ignored
C21_Witness ==
    /\ lastOp.op = "NeedIgnoreNode"
    /\ lastOp.inst = "checker"
    /\ lastOp.status = "terminationMHCOnly"
    /\ mhcStatus = "terminationMHCOnly"
    /\ lastUpdate.seen = << <<"Terminating">> >>
    /\ lastOp.kind = <<"Ready", "Terminating">>
    /\ lastOp.out.obtained

(* ------------------------------------------------------------------------ *)
(* C22                                                                      *)
(* ------------------------------------------------------------------------ *)
\* C22, as claimed: a ManageLease that gets as far as the overdue check (a lease
\* with an acquire time was fetched, and the no-work branch was not taken) never
\* computes the overdue bound or the extension from a required duration of
\* zero, that is from no remediation under a non-empty escalation policy.
C22_NoZeroDuration ==
    ( /\ ManagedALease
      /\ ~NoWorkLeft
      /\ lastOp.pre.acquireTime # NilTime )
    => /\ getLeaseDurationForRemediations(lastOp.nhc, lastOp.remediationCrs) > 0
       /\ ~(lastOp.nhc # << >> /\ lastOp.remediationCrs = << >>)

(* ------------------------------------------------------------------------ *)
(* C23                                                                      *)
(* ------------------------------------------------------------------------ *)
\* ManageLease, with remediations active, fetched the caller's own lease, which
\* was last written with the TTL this call requires plus the buffer
ManagedOwnLeaseOfSameDuration ==
    /\ ManagedALease
    /\ lastOp.remediationCrs # << >>
    /\ lastOp.pre.holder = Identity(lastOp.inst)
    /\ lastOp.pre.acquireTime # NilTime
    /\ lastOp.pre.renewTime # NilTime
    /\ lastOp.pre.durationSeconds = LastRequired + LeaseBuffer

\* the call wrote nothing and returned (requiredDuration, nil)
NothingWritten ==
    /\ lastOp.out.requested = NilTime
    /\ ~lastOp.out.invalidated
    /\ lease = lastOp.stored
    /\ lastOp.out.recheck = LastRequired
    /\ lastOp.out.err = "nil"

\* C23, as claimed: a ManageLease made no more than the buffer after the last
\* write of the caller's lease, for the same required duration, writes nothing
\* and returns (requiredDuration, nil); an extension is requested only when more
\* than the buffer has elapsed since that write.
C23_BufferDelaysExtension ==
    ManagedOwnLeaseOfSameDuration
    => /\ lastOp.extendNow - lastOp.pre.renewTime <= LeaseBuffer => NothingWritten
       /\ lastOp.out.requested # NilTime
             => lastOp.extendNow - lastOp.pre.renewTime > LeaseBuffer

\* C23, amended: the same, for a lease that is not found overdue: then an
\* extension is requested exactly when, by the clock read for the extension,
\* more than the buffer has elapsed since the last write of the lease fetched,
\* and nothing is written otherwise.  A lease found overdue is released,
\* however recently it was written.
C23_BufferDelaysExtensionUnlessOverdue ==
    ManagedOwnLeaseOfSameDuration
    => IF lastOp.overdueNow > lastOp.pre.acquireTime + 3 * LastRequired
       THEN lastOp.out.invalidated /\ lastOp.out.recheck = 0
       ELSE /\ lastOp.extendNow - lastOp.pre.renewTime <= LeaseBuffer
                  => NothingWritten
            /\ lastOp.out.requested # NilTime
                  <=> lastOp.extendNow - lastOp.pre.renewTime > LeaseBuffer

\* a minute after the lease was written in this run, ManageLease writes nothing
C23_Witness ==
    /\ ManagedOwnLeaseOfSameDuration
    /\ lastOp.pre.renewTime >= StartTime
    /\ lastOp.extendNow = lastOp.pre.renewTime + LeaseBuffer
    /\ lastOp.overdueNow <= lastOp.pre.acquireTime + 3 * LastRequired
    /\ NothingWritten

(* ------------------------------------------------------------------------ *)
(* C24                                                                      *)
(* ------------------------------------------------------------------------ *)
\* the clock as the invocation just made read it last
CallNow == IF lastOp.op = "Manage" THEN lastOp.extendNow ELSE now

\* the invocation returned (true, d, nil) or (d, nil) with d > 0
ReturnedHint ==
    /\ lastOp.op \in {"Obtain", "Manage"}
    /\ lastOp.out.err = "nil"
    /\ lastOp.out.recheck > 0
    /\ lastOp.op = "Obtain" => lastOp.out.obtained

\* C24, as claimed: the recheck hint never outlives the lease.  When
\* ObtainNodeLease returns (true, d, nil), or ManageLease returns (d, nil) with
\* d > 0, the lease in the store ends (renew time + duration) at or after
\* now + d.
C24_HintWithinLease ==
    ReturnedHint
    => /\ lease.exists
       /\ lease.renewTime # NilTime
       /\ lease.durationSeconds # NilTime
       /\ StoredExpiry(lease) >= CallNow + lastOp.out.recheck

\* the lease the invocation went by: the one it wrote, or else the one it fetched
LeaseGoneBy == IF lastOp.out.requested # NilTime THEN lease ELSE lastOp.pre

\* C24, amended: the recheck hint never outlives the lease the call went by.
\* When ObtainNodeLease returns (true, d, nil), or ManageLease returns (d, nil)
\* with d > 0, the lease it wrote, or the lease it fetched when it wrote none,
\* ends at or after now + d; the lease in the store can by then have been
\* released or replaced by another instance.
C24_HintWithinLeaseGoneBy ==
    ReturnedHint
    => /\ LeaseGoneBy.exists
       /\ LeaseGoneBy.renewTime # NilTime
       /\ LeaseGoneBy.durationSeconds # NilTime
       /\ StoredExpiry(LeaseGoneBy) >= CallNow + lastOp.out.recheck

\* ManageLease went by the lease it fetched, wrote nothing and returned the
\* required duration, after another instance had released the lease
C24_Witness ==
    /\ lastOp.op = "Manage"
    /\ lastOp.inst = "nhc-1"
    /\ lastOp.pre.holder = holderIdentity
    /\ lastOp.out.err = "nil"
    /\ lastOp.out.recheck = Minute
    /\ lastOp.out.requested = NilTime
    /\ ~lastOp.stored.exists
    /\ ~lease.exists
    /\ StoredExpiry(lastOp.pre) > lastOp.extendNow + Minute

(* ------------------------------------------------------------------------ *)
(* C25                                                                      *)
(* ------------------------------------------------------------------------ *)
\* what ManageLease returns when it is called again at once: same caller, policy
\* and remediations, on the lease the first call left, the store answering
ManagedAgain ==
    ManageLease(Identity(lastOp.inst), lastOp.nhc, lastOp.remediationCrs,
                lease, now, now, lease, now, "none")

\* C25, as claimed: ManageLease is idempotent.  Called again at once with the
\* same policy and remediations, it leaves the lease as the first call left it
\* and writes nothing: it releases nothing, and requests the lease only to be
\* refused by the store.
C25_Idempotent ==
    ( /\ lastOp.op = "Manage"
      /\ lastOp.fault = "none"
      /\ lastOp.out.err # "Panic" )
    => /\ ManagedAgain.lease = lease
       /\ ~ManagedAgain.invalidated
       /\ ManagedAgain.requested # NilTime => ManagedAgain.err = "AlreadyHeld"

(* ------------------------------------------------------------------------ *)
(* C26                                                                      *)
(* ------------------------------------------------------------------------ *)
\* C26, as claimed: ManageLease always completes.  For every lease the store
\* returns, one without renew time or duration included, it returns a duration
\* and an error value, and does not abort while computing the actual expiry.
C26_AlwaysCompletes ==
    lastOp.op = "Manage" => lastOp.out.err # "Panic"

====
